---------------------------- MODULE Spec2Model ----------------------------
(***************************************************************************)
(* A model of simple-game-patcher.py: the GamePatcher operations apply,    *)
(* revert and status, the GameLock that serialises apply and revert, and   *)
(* the files they work on (the target tree, the backup tree, the patch     *)
(* source and state.json).                                                 *)
(*                                                                         *)
(* Every invocation of the command line is a process.  An invocation moves *)
(* through the positions of its handler (pc), one file operation per step; *)
(* any file copy of apply and any restore may raise.  Between invocations  *)
(* the environment may edit target files, edit the patch source or delete  *)
(* state.json; a process holding the lock may be killed.  A raising file   *)
(* operation leaves its destination as it was.                             *)
(***************************************************************************)
EXTENDS Naturals, Sequences, FiniteSets, TLC

\* ------------------------------------------------------------------ bounds
\* Events of one behaviour: invocations of the command line, edits made by the
\* environment (to a target file, to a patch file, to state.json) and faults
\* (a file operation that raises, a process that is killed).
MaxEvents == 4

\* ------------------------------------------------------------------- data
\* Relative paths below the target root, the backup root and the patch source.
Paths == {"a.txt", "b.txt"}
\* Concurrent invocations of the command line.
Procs == {1, 2}
\* File contents: two values tell any two files apart.
Contents == {1, 2}
\* Path.exists() is false.
Absent == 0
Files == [Paths -> Contents \cup {Absent}]
NoFiles == [rp \in Paths |-> Absent]

\* original_checksum of a file that did not exist.
None == <<>>
\* SHA256 of a file's content: equal contents, equal digests, and no collisions.
_compute_checksum(content) == <<"sha256", content>>

\* One value of the state dictionary; relative_path is the key it is stored under.
PatchedFile(original_checksum, patched_checksum, has_backup) ==
    [tracked |-> TRUE, original_checksum |-> original_checksum,
     patched_checksum |-> patched_checksum, has_backup |-> has_backup]
\* A path that is not a key of the state dictionary.
Untracked ==
    [tracked |-> FALSE, original_checksum |-> None,
     patched_checksum |-> None, has_backup |-> FALSE]
\* The empty dictionary.
EmptyState == [rp \in Paths |-> Untracked]
Tracked(st) == {rp \in Paths : st[rp].tracked}

VARIABLES
    target_exists,  \* config.target is a directory
    patches_exists, \* patches_dir is a directory
    target,         \* content of config.target / rp
    backup,         \* content of config.backup / rp
    patches,        \* content of patches_dir / rp
    state_file,     \* state.json: whether it exists, and the dictionary in it
    lock,           \* the invocations holding the flock on patcher.lock
    pc,             \* position of each invocation in its handler
    cmd,            \* the command of each invocation
    state,          \* apply/revert: the dictionary _load_state returned
    operations,     \* apply: the list built by the pre-flight loop
    new_state,      \* apply: the dictionary being built
    patched_files,  \* apply: the paths patched so far
    original_checksum, \* apply: the checksum the backup step of the loop computed
    todo,           \* paths the rollback loop / the revert loop has still to restore
    result,         \* how the invocation ended
    report,         \* status: the classification printed
    pre_target,     \* history: the target tree when the invocation began
    pre_backup,     \* history: the backup tree when the invocation began
    pre_state,      \* history: state.json when the invocation began
    raised,         \* history: a file operation of apply's execution loop raised
    failed,         \* history: restores of this invocation that raised
    blocked_by,     \* history: the lock holders that made the lock raise
    contended,      \* history: the commands that met the lock held by this invocation
    chain,          \* history: the target tree before a run of successful applies
    rebacked,       \* history: what the apply just finished backed up afresh
    last_status,    \* history: the last two outputs of status, nothing changed since
    partial,        \* history: the target files a killed apply left overwritten
    events          \* history: invocations, edits and faults so far

files == <<target_exists, patches_exists, target, backup, patches, state_file>>
locals == <<state, operations, new_state, patched_files, original_checksum, todo>>
snapshots == <<pre_target, pre_backup, pre_state, raised, failed, blocked_by, contended>>
history == <<snapshots, chain, events>>
recent == <<rebacked, last_status, partial>>
vars == <<files, lock, pc, cmd, locals, result, report, history, recent>>

\* ------------------------------------------------------------ state store
_load_state == IF state_file.exists THEN state_file.data ELSE EmptyState
_save_state(st) == [exists |-> TRUE, data |-> st]
\* state_file.unlink()
NoStateFile == [exists |-> FALSE, data |-> EmptyState]

\* The regular files below patches_dir, as relative paths.
_get_patch_files == {rp \in Paths : patches[rp] # Absent}

NoChain == [active |-> FALSE, base |-> NoFiles, n |-> 0]

\* No status has printed anything since the files last changed.
Unobserved == [prev |-> None, cur |-> None]
\* An apply, a revert or the environment is at work: what status printed
\* before is no longer of the files as they are.
Disturb == last_status' = Unobserved
\* status prints out: the output before it, if any, becomes the previous one.
Observe(out) == last_status' = [prev |-> last_status.cur, cur |-> out]

\* No operation tells one path from another, so of two initial trees that
\* differ by renaming the paths only one is kept: the one in which a.txt is
\* not behind b.txt, first by target content, then by patch content.
Canonical(t, q) ==
    \/ t["a.txt"] > t["b.txt"]
    \/ t["a.txt"] = t["b.txt"] /\ q["a.txt"] >= q["b.txt"]

\* Before the first invocation: any target tree and any patch source (either
\* directory may be missing), no backup, no state.json.
Init ==
    /\ target_exists \in BOOLEAN
    /\ patches_exists \in BOOLEAN
    /\ target \in (IF target_exists THEN Files ELSE {NoFiles})
    /\ patches \in (IF patches_exists THEN Files ELSE {NoFiles})
    /\ Canonical(target, patches)
    /\ backup = NoFiles
    /\ state_file = NoStateFile
    /\ lock = {}
    /\ pc = [p \in Procs |-> "idle"]
    /\ cmd = [p \in Procs |-> "none"]
    /\ state = [p \in Procs |-> EmptyState]
    /\ operations = [p \in Procs |-> <<>>]
    /\ new_state = [p \in Procs |-> EmptyState]
    /\ patched_files = [p \in Procs |-> <<>>]
    /\ original_checksum = [p \in Procs |-> None]
    /\ todo = [p \in Procs |-> <<>>]
    /\ result = [p \in Procs |-> "none"]
    /\ report = [p \in Procs |-> [rp \in Paths |-> "none"]]
    /\ pre_target = [p \in Procs |-> NoFiles]
    /\ pre_backup = [p \in Procs |-> NoFiles]
    /\ pre_state = [p \in Procs |-> NoStateFile]
    /\ raised = [p \in Procs |-> FALSE]
    /\ contended = [p \in Procs |-> {}]
    /\ failed = [p \in Procs |-> {}]
    /\ blocked_by = [p \in Procs |-> {}]
    /\ chain = NoChain
    /\ rebacked = NoFiles
    /\ last_status = Unobserved
    /\ partial = {}
    /\ events = 0

\* ------------------------------------------------------------------- lock
\* A flock that never refuses (the lock taken on a file of its own per process).
flock_granted_always == TRUE
\* fcntl.flock(LOCK_EX | LOCK_NB) succeeds when no one holds the lock.
flock_granted == lock = {}
\* An __exit__ that keeps the lock (no LOCK_UN, the descriptor left open).
__exit___kept(p) == lock
\* GameLock.__exit__: LOCK_UN and close.
__exit__(p) == lock \ {p}

\* The positions of apply and revert inside "with GameLock(...)".
Body == {"apply", "plan", "backup", "copy", "save", "rollback",
         "revert", "restore", "unlink", "cleanup"}

\* The end of an invocation of apply or revert: the with-block is left, by
\* return or by an exception, and GameLock.__exit__ runs.
Leave(p, res) ==
    /\ pc' = [pc EXCEPT ![p] = "done"]
    /\ result' = [result EXCEPT ![p] = res]
    /\ lock' = __exit__(p)

\* An invocation that has returned changes nothing any more, so its process
\* exits before anything else happens.
Returned == \E p \in Procs : pc[p] = "done"

\* main(): a new invocation of the command line.  Process numbers only name
\* the invocations that run at the same time: a new one takes the first free one.
Invoke(p, c) ==
    /\ ~Returned
    /\ pc[p] = "idle"
    /\ \A q \in Procs : q < p => pc[q] # "idle"
    /\ events < MaxEvents
    /\ events' = events + 1
    /\ cmd' = [cmd EXCEPT ![p] = c]
    /\ pre_target' = [pre_target EXCEPT ![p] = target]
    /\ pre_backup' = [pre_backup EXCEPT ![p] = backup]
    /\ pre_state' = [pre_state EXCEPT ![p] = state_file]

\* sys.exit: the process of a finished invocation is gone, and its variables
\* with it.
Exit(p) ==
    /\ pc[p] = "done"
    /\ pc' = [pc EXCEPT ![p] = "idle"]
    /\ cmd' = [cmd EXCEPT ![p] = "none"]
    /\ result' = [result EXCEPT ![p] = "none"]
    /\ report' = [report EXCEPT ![p] = [rp \in Paths |-> "none"]]
    /\ state' = [state EXCEPT ![p] = EmptyState]
    /\ operations' = [operations EXCEPT ![p] = <<>>]
    /\ new_state' = [new_state EXCEPT ![p] = EmptyState]
    /\ patched_files' = [patched_files EXCEPT ![p] = <<>>]
    /\ original_checksum' = [original_checksum EXCEPT ![p] = None]
    /\ todo' = [todo EXCEPT ![p] = <<>>]
    /\ pre_target' = [pre_target EXCEPT ![p] = NoFiles]
    /\ pre_backup' = [pre_backup EXCEPT ![p] = NoFiles]
    /\ pre_state' = [pre_state EXCEPT ![p] = NoStateFile]
    /\ raised' = [raised EXCEPT ![p] = FALSE]
    /\ failed' = [failed EXCEPT ![p] = {}]
    /\ blocked_by' = [blocked_by EXCEPT ![p] = {}]
    /\ contended' = [contended EXCEPT ![p] = {}]
    /\ chain' = IF cmd[p] = "revert" THEN NoChain ELSE chain
    /\ UNCHANGED <<files, lock, events>>
    /\ rebacked' = IF cmd[p] = "revert" THEN NoFiles ELSE rebacked
    /\ UNCHANGED last_status
    /\ partial' = IF /\ cmd[p] \in {"apply", "revert"}
                     /\ result[p] \notin {"Killed", "LockHeld"}
                  THEN {} ELSE partial

\* An __enter__ that opens the lock file and returns without locking it.
Acquire_unlocked(p, c) ==
    /\ Invoke(p, c)
    /\ flock_granted
    /\ pc' = [pc EXCEPT ![p] = c]
    /\ UNCHANGED <<files, lock, locals, result, report, raised, failed,
                   blocked_by, contended, chain>>
    /\ rebacked' = IF c = "apply" THEN NoFiles ELSE rebacked
    /\ UNCHANGED partial
    /\ Disturb

\* apply or revert is invoked and GameLock.__enter__ gets the lock.
Acquire(p, c) ==
    /\ Invoke(p, c)
    /\ flock_granted
    /\ lock' = lock \cup {p}
    /\ pc' = [pc EXCEPT ![p] = c]
    /\ UNCHANGED <<files, locals, result, report, raised, failed, blocked_by,
                   contended, chain>>
    /\ rebacked' = IF c = "apply" THEN NoFiles ELSE rebacked
    /\ UNCHANGED partial
    /\ Disturb

\* An __enter__ that swallows BlockingIOError: the invocation goes on without
\* the lock.
LockHeld_ignored(p, c) ==
    /\ Invoke(p, c)
    /\ ~flock_granted
    /\ pc' = [pc EXCEPT ![p] = c]
    /\ blocked_by' = [blocked_by EXCEPT ![p] = lock]
    /\ UNCHANGED <<files, lock, locals, result, report, raised, failed,
                   contended, chain>>
    /\ UNCHANGED recent

\* apply or revert is invoked and GameLock.__enter__ meets BlockingIOError: the
\* PatcherError ends the invocation.
LockHeld(p, c) ==
    /\ Invoke(p, c)
    /\ ~flock_granted
    /\ pc' = [pc EXCEPT ![p] = "done"]
    /\ result' = [result EXCEPT ![p] = "LockHeld"]
    /\ blocked_by' = [blocked_by EXCEPT ![p] = lock]
    /\ contended' = [q \in Procs |-> IF q \in lock THEN contended[q] \cup {c}
                                                   ELSE contended[q]]
    /\ UNCHANGED <<files, lock, locals, report, raised, failed, chain>>
    /\ UNCHANGED recent

\* A conflict check that compares the target with the recorded original
\* instead of the recorded patch.
_check_conflicts_original(rp, st) ==
    IF target[rp] = Absent THEN FALSE
    ELSE st[rp].tracked /\ _compute_checksum(target[rp]) # st[rp].original_checksum

\* ------------------------------------------------------------------ apply
\* _check_conflicts: "modified" (TRUE) or None (FALSE).
_check_conflicts(rp, st) ==
    IF target[rp] = Absent THEN FALSE
    ELSE st[rp].tracked /\ _compute_checksum(target[rp]) # st[rp].patched_checksum

\* The answers _handle_conflict returns.
Actions == {"abort", "re-backup", "force"}

\* The paths the pre-flight loop has already been through.
Planned(p) == {operations[p][i].relative_path : i \in 1..Len(operations[p])}

\* A pre-flight loop in which the answer "force" leaves needs_backup as it is.
Operation_force_ignored(rp, st, action) ==
    LET exists == target[rp] # Absent
        conflict == IF exists THEN _check_conflicts(rp, st) ELSE FALSE
    IN  [relative_path |-> rp,
         needs_backup |-> exists,
         force_rebackup |-> conflict /\ action = "re-backup"]

\* The operation the pre-flight loop appends for rp; action is the operator's
\* answer when there is a conflict.
Operation(rp, st, action) ==
    LET exists == target[rp] # Absent
        conflict == IF exists THEN _check_conflicts(rp, st) ELSE FALSE
    IN  [relative_path |-> rp,
         needs_backup |-> IF conflict /\ action = "force" THEN FALSE ELSE exists,
         force_rebackup |-> conflict /\ action = "re-backup"]

\* An execution loop that keeps the backup it has, whatever force_rebackup says.
TakesBackup_keeps(op, st) ==
    /\ op.needs_backup
    /\ \/ ~st[op.relative_path].tracked
       \/ ~st[op.relative_path].has_backup

\* An execution loop that never calls _backup_file.
TakesBackup_never(op, st) == FALSE

\* The condition under which the execution loop calls _backup_file.
TakesBackup(op, st) ==
    /\ op.needs_backup
    /\ \/ ~st[op.relative_path].tracked
       \/ ~st[op.relative_path].has_backup
       \/ op.force_rebackup

\* The operation the execution loop is at.
CurrentOp(p) == operations[p][Len(patched_files[p]) + 1]

\* apply without the check of the target root: a missing target directory is
\* created by the copies of the execution loop.
ApplyStart_unchecked(p) ==
    /\ ~Returned
    /\ pc[p] = "apply"
    /\ UNCHANGED <<files, cmd, operations, new_state, patched_files,
                   original_checksum, todo, report, snapshots, events>>
    /\ \/ /\ ~patches_exists
          /\ Leave(p, "PatchesMissing")
          /\ chain' = NoChain
          /\ state' = [state EXCEPT ![p] = _load_state]
       \/ /\ patches_exists /\ _get_patch_files = {}
          /\ Leave(p, "NoPatchFiles")
          /\ state' = [state EXCEPT ![p] = _load_state]
          /\ UNCHANGED chain
       \/ /\ patches_exists /\ _get_patch_files # {}
          /\ state' = [state EXCEPT ![p] = _load_state]
          /\ pc' = [pc EXCEPT ![p] = "plan"]
          /\ chain' = IF Tracked(_load_state) = {} /\ backup = NoFiles
                      THEN [active |-> TRUE, base |-> target, n |-> 0]
                      ELSE chain
          /\ UNCHANGED <<lock, result>>
    /\ UNCHANGED <<rebacked, partial>>
    /\ Disturb

\* apply, up to the pre-flight loop: the target check, _load_state,
\* _get_patch_files and the empty patch source.
ApplyStart(p) ==
    /\ ~Returned
    /\ pc[p] = "apply"
    /\ UNCHANGED <<files, cmd, operations, new_state, patched_files,
                   original_checksum, todo, report, snapshots, events>>
    /\ \/ /\ ~target_exists
          /\ Leave(p, "TargetMissing")
          /\ chain' = NoChain
          /\ UNCHANGED state
       \/ /\ target_exists /\ ~patches_exists
          /\ Leave(p, "PatchesMissing")
          /\ chain' = NoChain
          /\ state' = [state EXCEPT ![p] = _load_state]
       \/ /\ target_exists /\ patches_exists /\ _get_patch_files = {}
          /\ Leave(p, "NoPatchFiles")
          /\ state' = [state EXCEPT ![p] = _load_state]
          /\ UNCHANGED chain
       \/ /\ target_exists /\ patches_exists /\ _get_patch_files # {}
          /\ state' = [state EXCEPT ![p] = _load_state]
          /\ pc' = [pc EXCEPT ![p] = "plan"]
          /\ chain' = IF Tracked(_load_state) = {} /\ backup = NoFiles
                      THEN [active |-> TRUE, base |-> target, n |-> 0]
                      ELSE chain
          /\ UNCHANGED <<lock, result>>
    /\ UNCHANGED <<rebacked, partial>>
    /\ Disturb

\* An Abort that comes after the backups asked for by the earlier answers of
\* the pre-flight loop were already taken.
Abort_after_backup(p) ==
    /\ Leave(p, "Aborted")
    /\ chain' = NoChain
    /\ backup' = [rp \in Paths |->
         IF \E i \in 1..Len(operations[p]) :
               /\ operations[p][i].relative_path = rp
               /\ operations[p][i].force_rebackup
         THEN target[rp] ELSE backup[rp]]
    /\ UNCHANGED <<target_exists, patches_exists, target, patches, state_file,
                   operations, new_state>>

\* The operator answers "abort": "Patching aborted." and return, before
\* anything was written.
Abort(p) ==
    /\ Leave(p, "Aborted")
    /\ chain' = NoChain
    /\ UNCHANGED <<files, operations, new_state>>

\* A pre-flight loop that ends with new_state started empty instead of as a
\* copy of the loaded state.
Plan_fresh(p) ==
    /\ ~Returned
    /\ pc[p] = "plan"
    /\ UNCHANGED <<cmd, state, patched_files, original_checksum, todo,
                   report, snapshots, events>>
    /\ \E rp \in _get_patch_files \ Planned(p) :
         \E action \in (IF _check_conflicts(rp, state[p]) THEN Actions ELSE {"none"}) :
           LET ops == Append(operations[p], Operation(rp, state[p], action))
           IN  \/ /\ action = "abort"
                  /\ Abort(p)
               \/ /\ action # "abort"
                  /\ operations' = [operations EXCEPT ![p] = ops]
                  /\ IF Len(ops) = Cardinality(_get_patch_files)
                     THEN /\ pc' = [pc EXCEPT ![p] = "backup"]
                          /\ new_state' = [new_state EXCEPT ![p] = EmptyState]
                     ELSE UNCHANGED <<pc, new_state>>
                  /\ UNCHANGED <<files, lock, result, chain>>
    /\ UNCHANGED <<rebacked, partial>>
    /\ Disturb

\* One round of the pre-flight loop: the next patch file, its conflict check and,
\* on a conflict, the operator's answer.  After the last round the execution
\* loop starts from a copy of the state.
Plan(p) ==
    /\ ~Returned
    /\ pc[p] = "plan"
    /\ UNCHANGED <<cmd, state, patched_files, original_checksum, todo,
                   report, snapshots, events>>
    /\ \E rp \in _get_patch_files \ Planned(p) :
         \E action \in (IF _check_conflicts(rp, state[p]) THEN Actions ELSE {"none"}) :
           LET ops == Append(operations[p], Operation(rp, state[p], action))
           IN  \/ /\ action = "abort"
                  /\ Abort(p)
               \/ /\ action # "abort"
                  /\ operations' = [operations EXCEPT ![p] = ops]
                  /\ IF Len(ops) = Cardinality(_get_patch_files)
                     THEN /\ pc' = [pc EXCEPT ![p] = "backup"]
                          /\ new_state' = [new_state EXCEPT ![p] = state[p]]
                     ELSE UNCHANGED <<pc, new_state>>
                  /\ UNCHANGED <<files, lock, result, chain>>
    /\ UNCHANGED <<rebacked, partial>>
    /\ Disturb

\* The execution loop, "Backup if needed": _backup_file and the checksum kept
\* for the new entry.
ExecBackup(p) ==
    /\ ~Returned
    /\ pc[p] = "backup"
    /\ LET op == CurrentOp(p)
           rp == op.relative_path
       IN  /\ backup' = IF TakesBackup(op, state[p])
                        THEN [backup EXCEPT ![rp] = target[rp]]
                        ELSE backup
           /\ original_checksum' = [original_checksum EXCEPT ![p] =
                IF ~op.needs_backup THEN None
                ELSE IF TakesBackup(op, state[p]) THEN _compute_checksum(target[rp])
                ELSE state[p][rp].original_checksum]
    /\ pc' = [pc EXCEPT ![p] = "copy"]
    /\ UNCHANGED <<target_exists, patches_exists, target, patches, state_file,
                   lock, cmd, state, operations, new_state, patched_files, todo,
                   result, report, history>>
    /\ UNCHANGED <<rebacked, partial>>
    /\ Disturb

\* An entry whose patched_checksum is computed from the target file before
\* the patch is copied over it.
NewEntry_early(op, original) ==
    PatchedFile(original, _compute_checksum(target[op.relative_path]),
                op.needs_backup)

\* An entry whose has_backup is taken from the target file after the copy,
\* when it always exists.
NewEntry_exists(op, original) ==
    PatchedFile(original, _compute_checksum(patches[op.relative_path]), TRUE)

\* The entry the execution loop records for an operation.
NewEntry(op, original) ==
    PatchedFile(original, _compute_checksum(patches[op.relative_path]),
                op.needs_backup)

\* The execution loop, "Copy patch file" and "Record operation".
ExecCopy(p) ==
    /\ ~Returned
    /\ pc[p] = "copy"
    /\ LET op == CurrentOp(p)
           rp == op.relative_path
       IN  /\ target' = [target EXCEPT ![rp] = patches[rp]]
           /\ new_state' = [new_state EXCEPT ![p][rp] =
                              NewEntry(op, original_checksum[p])]
           /\ patched_files' = [patched_files EXCEPT ![p] = Append(@, rp)]
           /\ pc' = [pc EXCEPT ![p] =
                IF Len(patched_files[p]) + 1 = Len(operations[p])
                THEN "save" ELSE "backup"]
    /\ original_checksum' = [original_checksum EXCEPT ![p] = None]
    /\ UNCHANGED <<target_exists, patches_exists, backup, patches, state_file,
                   lock, cmd, state, operations, todo, result, report, history>>
    /\ UNCHANGED <<rebacked, partial>>
    /\ Disturb

\* A file operation inside the try block raises (shutil.copy2 of the backup or
\* of the patch, or the writing of state.json after the loop): control passes
\* to the except clause.
ExecRaise(p) ==
    /\ ~Returned
    /\ events < MaxEvents
    /\ events' = events + 1
    /\ \/ pc[p] = "backup" /\ TakesBackup(CurrentOp(p), state[p])
       \/ pc[p] = "copy"
       \/ pc[p] = "save"
    /\ pc' = [pc EXCEPT ![p] = "rollback"]
    /\ todo' = [todo EXCEPT ![p] = patched_files[p]]
    /\ original_checksum' = [original_checksum EXCEPT ![p] = None]
    /\ chain' = NoChain
    /\ raised' = [raised EXCEPT ![p] = TRUE]
    /\ UNCHANGED <<files, lock, cmd, state, operations, new_state, patched_files,
                   result, report, pre_target, pre_backup, pre_state, failed,
                   blocked_by, contended>>
    /\ UNCHANGED <<rebacked, partial>>
    /\ Disturb

\* "Save state" after the loop: the success exit of apply.
Save(p) ==
    /\ ~Returned
    /\ pc[p] = "save"
    /\ state_file' = _save_state(new_state[p])
    /\ Leave(p, "Patched")
    /\ chain' = IF chain.active THEN [chain EXCEPT !.n = @ + 1] ELSE chain
    /\ UNCHANGED <<target_exists, patches_exists, target, backup, patches, cmd,
                   locals, report, snapshots, events>>
    /\ rebacked' = [rp \in Paths |->
         IF \E i \in 1..Len(operations[p]) :
               /\ operations[p][i].relative_path = rp
               /\ operations[p][i].force_rebackup
         THEN pre_target[p][rp] ELSE Absent]
    /\ Disturb
    /\ UNCHANGED partial

\* An except clause that saves the dictionary the loop was building.
RollbackState_new(p) == new_state[p]

\* The dictionary the except clause saves: the one loaded before the loop.
RollbackState(p) == state[p]

\* The end of the except clause: "Restore original state" and the PatcherError.
RollbackEnd(p) ==
    /\ ~Returned
    /\ pc[p] = "rollback"
    /\ todo[p] = <<>>
    /\ state_file' = _save_state(RollbackState(p))
    /\ Leave(p, "PatchingFailed")
    /\ UNCHANGED <<target_exists, patches_exists, target, backup, patches, cmd,
                   locals, report, history>>
    /\ UNCHANGED <<rebacked, partial>>
    /\ Disturb

\* ---------------------------------------------------------- _restore_file
\* The path the rollback loop or the revert loop is at.
CurrentPath(p) == Head(todo[p])
\* A restore that never removes the backup.
delete_backup_never(p) == FALSE

\* apply's rollback calls _restore_file(delete_backup=False), revert the default.
delete_backup(p) == cmd[p] = "revert"
\* The loop goes on to its next path.
NextPath(p) == todo' = [todo EXCEPT ![p] = Tail(@)]

\* _restore_file, the backup exists: shutil.copy2(backup_file, target_file).
RestoreCopy(p) ==
    /\ ~Returned
    /\ pc[p] \in {"rollback", "restore"}
    /\ todo[p] # <<>>
    /\ backup[CurrentPath(p)] # Absent
    /\ target' = [target EXCEPT ![CurrentPath(p)] = backup[CurrentPath(p)]]
    /\ IF delete_backup(p)
       THEN pc' = [pc EXCEPT ![p] = "unlink"] /\ UNCHANGED todo
       ELSE NextPath(p) /\ UNCHANGED pc
    /\ UNCHANGED <<target_exists, patches_exists, backup, patches, state_file,
                   lock, cmd, state, operations, new_state, patched_files,
                   original_checksum, result, report, history>>
    /\ UNCHANGED <<rebacked, partial>>
    /\ Disturb

\* _restore_file, after the copy: backup_file.unlink().
RestoreUnlink(p) ==
    /\ ~Returned
    /\ pc[p] = "unlink"
    /\ backup' = [backup EXCEPT ![CurrentPath(p)] = Absent]
    /\ pc' = [pc EXCEPT ![p] = "restore"]
    /\ NextPath(p)
    /\ UNCHANGED <<target_exists, patches_exists, target, patches, state_file,
                   lock, cmd, state, operations, new_state, patched_files,
                   original_checksum, result, report, history>>
    /\ UNCHANGED <<rebacked, partial>>
    /\ Disturb

\* _restore_file, no backup: the file did not exist originally, remove it.
RestoreRemove(p) ==
    /\ ~Returned
    /\ pc[p] \in {"rollback", "restore"}
    /\ todo[p] # <<>>
    /\ backup[CurrentPath(p)] = Absent
    /\ target' = [target EXCEPT ![CurrentPath(p)] = Absent]
    /\ NextPath(p)
    /\ UNCHANGED <<target_exists, patches_exists, backup, patches, state_file,
                   lock, pc, cmd, state, operations, new_state, patched_files,
                   original_checksum, result, report, history>>
    /\ UNCHANGED <<rebacked, partial>>
    /\ Disturb

\* A restore whose copy raises and whose backup is unlinked all the same, as
\* with the unlink in a finally clause.
RestoreRaise_unlinks(p) ==
    /\ ~Returned
    /\ events < MaxEvents
    /\ events' = events + 1
    /\ \/ /\ pc[p] \in {"rollback", "restore"}
          /\ todo[p] # <<>>
          /\ backup[CurrentPath(p)] # Absent \/ target[CurrentPath(p)] # Absent
       \/ pc[p] = "unlink"
    /\ pc' = [pc EXCEPT ![p] = IF cmd[p] = "revert" THEN "restore" ELSE "rollback"]
    /\ NextPath(p)
    /\ failed' = [failed EXCEPT ![p] = @ \cup {CurrentPath(p)}]
    /\ chain' = NoChain
    /\ backup' = IF delete_backup(p)
                 THEN [backup EXCEPT ![CurrentPath(p)] = Absent]
                 ELSE backup
    /\ UNCHANGED <<target_exists, patches_exists, target, patches, state_file,
                   lock, cmd, state, operations, new_state, patched_files,
                   original_checksum, result, report, pre_target, pre_backup,
                   pre_state, raised, blocked_by, contended>>
    /\ UNCHANGED <<rebacked, partial>>
    /\ Disturb

\* A restore failure that ends the loop: the entries after the failing one are
\* left as they are.
RestoreRaise_stops(p) ==
    /\ ~Returned
    /\ events < MaxEvents
    /\ events' = events + 1
    /\ \/ /\ pc[p] \in {"rollback", "restore"}
          /\ todo[p] # <<>>
          /\ backup[CurrentPath(p)] # Absent \/ target[CurrentPath(p)] # Absent
       \/ pc[p] = "unlink"
    /\ pc' = [pc EXCEPT ![p] = IF cmd[p] = "revert" THEN "restore" ELSE "rollback"]
    /\ todo' = [todo EXCEPT ![p] = <<>>]
    /\ failed' = [failed EXCEPT ![p] = @ \cup {CurrentPath(p)}]
    /\ chain' = NoChain
    /\ UNCHANGED <<files, lock, cmd, state, operations, new_state, patched_files,
                   original_checksum, result, report, pre_target, pre_backup,
                   pre_state, raised, blocked_by, contended>>
    /\ UNCHANGED <<rebacked, partial>>
    /\ Disturb

\* A file operation of _restore_file raises (the copy, or an unlink); both
\* loops catch it, print it and go on with the next path.
RestoreRaise(p) ==
    /\ ~Returned
    /\ events < MaxEvents
    /\ events' = events + 1
    /\ \/ /\ pc[p] \in {"rollback", "restore"}
          /\ todo[p] # <<>>
          /\ backup[CurrentPath(p)] # Absent \/ target[CurrentPath(p)] # Absent
       \/ pc[p] = "unlink"
    /\ pc' = [pc EXCEPT ![p] = IF cmd[p] = "revert" THEN "restore" ELSE "rollback"]
    /\ NextPath(p)
    /\ failed' = [failed EXCEPT ![p] = @ \cup {CurrentPath(p)}]
    /\ chain' = NoChain
    /\ UNCHANGED <<files, lock, cmd, state, operations, new_state, patched_files,
                   original_checksum, result, report, pre_target, pre_backup,
                   pre_state, raised, blocked_by, contended>>
    /\ UNCHANGED <<rebacked, partial>>
    /\ Disturb

\* ----------------------------------------------------------------- revert
\* The orders in which a dictionary with these keys can be iterated.
Orders(S) ==
    {seq \in [1..Cardinality(S) -> S] : \A i, j \in 1..Cardinality(S) :
                                           i # j => seq[i] # seq[j]}

\* A revert that, finding no entry, still clears the backup tree.
RevertStart_sweeps(p) ==
    /\ ~Returned
    /\ pc[p] = "revert"
    /\ state' = [state EXCEPT ![p] = _load_state]
    /\ UNCHANGED <<target_exists, patches_exists, target, patches, state_file,
                   cmd, operations, new_state, patched_files,
                   original_checksum, report, history>>
    /\ \/ /\ Tracked(_load_state) = {}
          /\ Leave(p, "NoPatches")
          /\ backup' = NoFiles
          /\ UNCHANGED todo
       \/ /\ Tracked(_load_state) # {}
          /\ \E order \in Orders(Tracked(_load_state)) :
               todo' = [todo EXCEPT ![p] = order]
          /\ pc' = [pc EXCEPT ![p] = "restore"]
          /\ UNCHANGED <<backup, lock, result>>
    /\ UNCHANGED <<rebacked, partial>>
    /\ Disturb

\* revert, up to its loop: _load_state and the empty state.
RevertStart(p) ==
    /\ ~Returned
    /\ pc[p] = "revert"
    /\ state' = [state EXCEPT ![p] = _load_state]
    /\ UNCHANGED <<files, cmd, operations, new_state, patched_files,
                   original_checksum, report, history>>
    /\ \/ /\ Tracked(_load_state) = {}
          /\ Leave(p, "NoPatches")
          /\ UNCHANGED todo
       \/ /\ Tracked(_load_state) # {}
          /\ \E order \in Orders(Tracked(_load_state)) :
               todo' = [todo EXCEPT ![p] = order]
          /\ pc' = [pc EXCEPT ![p] = "restore"]
          /\ UNCHANGED <<lock, result>>
    /\ UNCHANGED <<rebacked, partial>>
    /\ Disturb

\* revert after its loop: the state file is removed (the backup directory
\* exists, GameLock created it) and "Reverted n file(s)" is printed.
RevertEnd(p) ==
    /\ ~Returned
    /\ pc[p] = "restore"
    /\ todo[p] = <<>>
    /\ state_file' = NoStateFile
    /\ Leave(p, "Reverted")
    /\ UNCHANGED <<target_exists, patches_exists, target, backup, patches, cmd,
                   locals, report, history>>
    /\ UNCHANGED <<rebacked, partial>>
    /\ Disturb

\* ----------------------------------------------------------------- status
\* A classification that compares the file with original_checksum.
Classify_original(entry, content) ==
    IF content = Absent THEN "MISSING"
    ELSE IF _compute_checksum(content) = entry.original_checksum THEN "clean"
    ELSE "MODIFIED"

\* The status printed for one entry of the state.
Classify(entry, content) ==
    IF content = Absent THEN "MISSING"
    ELSE IF _compute_checksum(content) = entry.patched_checksum THEN "clean"
    ELSE "MODIFIED"

\* The three counters status prints in its summary.
Counts(rep) ==
    [c \in {"clean", "MODIFIED", "MISSING"} |->
        Cardinality({rp \in Paths : rep[rp] = c})]

\* A status that enters GameLock like apply and revert: it is refused when
\* the lock is held.
Status_locking(p) ==
    /\ Invoke(p, "status")
    /\ IF flock_granted
       THEN /\ state' = [state EXCEPT ![p] = _load_state]
            /\ IF Tracked(_load_state) = {}
               THEN /\ pc' = [pc EXCEPT ![p] = "done"]
                    /\ result' = [result EXCEPT ![p] = "NoPatches"]
               ELSE /\ pc' = [pc EXCEPT ![p] = "status"]
                    /\ UNCHANGED result
       ELSE /\ pc' = [pc EXCEPT ![p] = "done"]
            /\ result' = [result EXCEPT ![p] = "LockHeld"]
            /\ UNCHANGED state
    /\ UNCHANGED <<files, lock, operations, new_state, patched_files,
                   original_checksum, todo, report, raised, failed, blocked_by,
                   contended, chain, recent>>

\* status is invoked: no lock is taken, the state is loaded, and with an empty
\* state "No patches applied" ends it.
Status(p) ==
    /\ Invoke(p, "status")
    /\ state' = [state EXCEPT ![p] = _load_state]
    /\ IF Tracked(_load_state) = {}
       THEN /\ pc' = [pc EXCEPT ![p] = "done"]
            /\ result' = [result EXCEPT ![p] = "NoPatches"]
       ELSE /\ pc' = [pc EXCEPT ![p] = "status"]
            /\ UNCHANGED result
    /\ UNCHANGED <<files, lock, operations, new_state, patched_files,
                   original_checksum, todo, report, raised, failed, blocked_by,
                   contended, chain>>
    /\ UNCHANGED <<rebacked, partial>>
    /\ IF Tracked(_load_state) = {}
       THEN Observe(<<"NoPatches", [rp \in Paths |-> "none"]>>)
       ELSE UNCHANGED last_status

\* A status that forgets the entries it finds MISSING: it saves the state
\* without them.
StatusReport_pruning(p) ==
    /\ ~Returned
    /\ pc[p] = "status"
    /\ report' = [report EXCEPT ![p] = [rp \in Paths |->
         IF state[p][rp].tracked
         THEN Classify(state[p][rp], target[rp]) ELSE "none"]]
    /\ state_file' = _save_state([rp \in Paths |->
         IF target[rp] = Absent THEN Untracked ELSE state[p][rp]])
    /\ pc' = [pc EXCEPT ![p] = "done"]
    /\ result' = [result EXCEPT ![p] = "Status"]
    /\ UNCHANGED <<target_exists, patches_exists, target, backup, patches,
                   lock, cmd, locals, history>>
    /\ UNCHANGED <<rebacked, partial>>
    /\ Observe(IF state[p] = _load_state THEN <<"Status", report'[p]>> ELSE None)

\* status, its loop over the entries of the loaded state and the summary: each
\* entry is classified against the target file as it is now.
StatusReport(p) ==
    /\ ~Returned
    /\ pc[p] = "status"
    /\ report' = [report EXCEPT ![p] = [rp \in Paths |->
         IF state[p][rp].tracked
         THEN Classify(state[p][rp], target[rp]) ELSE "none"]]
    /\ pc' = [pc EXCEPT ![p] = "done"]
    /\ result' = [result EXCEPT ![p] = "Status"]
    /\ UNCHANGED <<files, lock, cmd, locals, history>>
    /\ UNCHANGED <<rebacked, partial>>
    /\ Observe(IF state[p] = _load_state THEN <<"Status", report'[p]>> ELSE None)

\* ------------------------------------------------------------ environment
\* The process of an apply or revert is killed inside the with-block; the
\* kernel drops its flock with its file descriptors.
Kill(p) ==
    /\ ~Returned
    /\ events < MaxEvents
    /\ events' = events + 1
    /\ pc[p] \in Body
    /\ pc' = [pc EXCEPT ![p] = "done"]
    /\ result' = [result EXCEPT ![p] = "Killed"]
    /\ lock' = lock \ {p}
    /\ chain' = NoChain
    /\ UNCHANGED <<files, cmd, locals, report, snapshots>>
    /\ rebacked' = NoFiles
    /\ partial' = IF cmd[p] = "apply" /\ pc[p] \in {"backup", "copy", "save"}
                  THEN {rp \in Paths : target[rp] # pre_target[p][rp]}
                  ELSE IF cmd[p] = "status" THEN partial ELSE {}
    /\ Disturb

\* No invocation is running: the environment edits files only then.
Quiet == lock = {} /\ \A p \in Procs : pc[p] = "idle"

\* The patcher has left something on disk.  Before that an edit only leads to
\* another of the initial trees, so edits are taken from then on.
Touched == state_file.exists \/ backup # NoFiles

\* The game, an updater or the user writes, creates or removes a target file.
EditTarget(rp, content) ==
    /\ Quiet /\ Touched /\ events < MaxEvents /\ target_exists
    /\ content # target[rp]
    /\ target' = [target EXCEPT ![rp] = content]
    /\ events' = events + 1
    /\ chain' = NoChain
    /\ UNCHANGED <<target_exists, patches_exists, backup, patches, state_file,
                   lock, pc, cmd, locals, result, report, snapshots>>
    /\ UNCHANGED rebacked
    /\ partial' = {}
    /\ Disturb

\* The user writes, adds or removes a patch file.
EditPatches(rp, content) ==
    /\ Quiet /\ Touched /\ events < MaxEvents /\ patches_exists
    /\ content # patches[rp]
    /\ patches' = [patches EXCEPT ![rp] = content]
    /\ events' = events + 1
    /\ UNCHANGED <<target_exists, patches_exists, target, backup, state_file,
                   lock, pc, cmd, locals, result, report, snapshots, chain>>
    /\ UNCHANGED rebacked
    /\ partial' = {}
    /\ Disturb

\* state.json is deleted between operations.
DeleteState ==
    /\ Quiet /\ events < MaxEvents /\ state_file.exists
    /\ state_file' = NoStateFile
    /\ events' = events + 1
    /\ chain' = NoChain
    /\ UNCHANGED <<target_exists, patches_exists, target, backup, patches,
                   lock, pc, cmd, locals, result, report, snapshots>>
    /\ rebacked' = NoFiles
    /\ partial' = {}
    /\ Disturb

\* ---------------------------------------------------------- specification
\* The commands that take the lock.
Locking == {"apply", "revert"}

\* The steps of the invocations and of the environment between them.
Run ==
    \/ \E p \in Procs, c \in Locking : Acquire(p, c)
    \/ \E p \in Procs, c \in Locking : LockHeld(p, c)
    \/ \E p \in Procs : Exit(p)
    \/ \E p \in Procs : ApplyStart(p)
    \/ \E p \in Procs : Plan(p)
    \/ \E p \in Procs : ExecBackup(p)
    \/ \E p \in Procs : ExecCopy(p)
    \/ \E p \in Procs : ExecRaise(p)
    \/ \E p \in Procs : Save(p)
    \/ \E p \in Procs : RollbackEnd(p)
    \/ \E p \in Procs : RestoreCopy(p)
    \/ \E p \in Procs : RestoreUnlink(p)
    \/ \E p \in Procs : RestoreRemove(p)
    \/ \E p \in Procs : RestoreRaise(p)
    \/ \E p \in Procs : RevertStart(p)
    \/ \E p \in Procs : RevertEnd(p)
    \/ \E p \in Procs : Status(p)
    \/ \E p \in Procs : StatusReport(p)
    \/ \E rp \in Paths, content \in Contents \cup {Absent} : EditTarget(rp, content)
    \/ \E rp \in Paths, content \in Contents \cup {Absent} : EditPatches(rp, content)
    \/ DeleteState

Next ==
    \/ Run
    \/ \E p \in Procs : Kill(p)

Spec == Init /\ [][Next]_vars

\* The behaviours in which every invocation runs to its end: no process is
\* killed inside apply or revert.
SpecToTheEnd == Init /\ [][Run]_vars

\* ------------------------------------------------------------------ claims
\* What an invocation of apply or revert is observed with when it has returned.
Done(p, c, res) == pc[p] = "done" /\ cmd[p] = c /\ result[p] = res

\* The dictionary a state.json holds (none when it does not exist).
Mapping(file) == IF file.exists THEN file.data ELSE EmptyState

\* The target tree an apply that runs alone leaves: the patch files over the
\* tree it found.
Overlay(tree) == [rp \in Paths |-> IF patches[rp] # Absent THEN patches[rp] ELSE tree[rp]]

\* C1: from no tracked state and no backups, one successful apply followed by
\* a revert, with no external change in between and no restore raising, leaves
\* the target tree as it was before the apply: files that existed have their
\* content back and files the apply created are gone.
C1_ApplyRevertRoundTrip ==
    \A p \in Procs :
        (Done(p, "revert", "Reverted") /\ chain.active /\ chain.n = 1)
            => target = chain.base

\* A revert has returned after one apply that overwrote a file and created another.
C1_Witness ==
    \E p \in Procs : \E rp, rq \in Paths :
        /\ Done(p, "revert", "Reverted") /\ chain.active /\ chain.n = 1
        /\ state[p][rp].tracked /\ chain.base[rp] # Absent
        /\ state[p][rp].patched_checksum # _compute_checksum(chain.base[rp])
        /\ state[p][rq].tracked /\ chain.base[rq] = Absent

\* C2: from no tracked state and no backups, any number of successful applies
\* in sequence (the patch source may change, the target is not edited),
\* followed by one revert, leave the target tree as it was before the first apply.
C2_RepeatedApplyRoundTrip ==
    \A p \in Procs :
        (Done(p, "revert", "Reverted") /\ chain.active /\ chain.n >= 1)
            => target = chain.base

\* C3: in a sequence of successful applies without external change, a path the
\* state already tracks and that is patched again with different patch content
\* keeps the original_checksum recorded before.
C3_BaselineStable ==
    \A p \in Procs : \A rp \in Paths :
        (/\ Done(p, "apply", "Patched") /\ chain.active /\ chain.n >= 2
         /\ state[p][rp].tracked /\ patches[rp] # Absent
         /\ _compute_checksum(patches[rp]) # state[p][rp].patched_checksum)
            => Mapping(state_file)[rp].original_checksum
                 = state[p][rp].original_checksum

\* The call began with no backup file but those the state records.
NoStrayBackup(p) ==
    \A rp \in Paths :
        pre_backup[p][rp] # Absent => Mapping(pre_state[p])[rp].has_backup

\* C4: an apply that failed in its execution loop and rolled back returns with
\* every target file as it was before the call.  (Stated for the calls in
\* which no restore of the rollback raised and that began with no backup file
\* but those the state records.)
C4_RollbackRestoresTarget ==
    \A p \in Procs :
        (Done(p, "apply", "PatchingFailed") /\ failed[p] = {} /\ NoStrayBackup(p))
            => target = pre_target[p]

\* C5: an apply in whose execution loop a file operation raised ends with
\* PatchingFailed, and the dictionary in state.json is then the one of before
\* the call.
C5_RollbackRestoresState ==
    \A p \in Procs :
        (pc[p] = "done" /\ cmd[p] = "apply" /\ raised[p] /\ result[p] # "Killed")
            => /\ result[p] = "PatchingFailed"
               /\ Mapping(state_file) = Mapping(pre_state[p])

\* An apply has failed after it had patched a file and built a different state.
C5_Witness ==
    \E p \in Procs :
        /\ Done(p, "apply", "PatchingFailed")
        /\ patched_files[p] # <<>>
        /\ Tracked(Mapping(pre_state[p])) # {}
        /\ new_state[p] # Mapping(pre_state[p])

\* The operations of the execution loop that were completed before the failure.
Completed(p) == {operations[p][i] : i \in 1..Len(patched_files[p])}

\* C6: after a failed, rolled-back apply every backup file of before the call
\* is present with the same content, and every backup the run made for the
\* files it had patched is on disk.  (Stated for the calls that began with no
\* backup file but those the state records.)
C6_RollbackKeepsBackups ==
    \A p \in Procs :
        (Done(p, "apply", "PatchingFailed") /\ NoStrayBackup(p))
            => /\ \A rp \in Paths :
                    pre_backup[p][rp] # Absent => backup[rp] = pre_backup[p][rp]
               /\ \A op \in Completed(p) :
                    TakesBackup(op, state[p]) => backup[op.relative_path] # Absent

\* C7: of two apply invocations that run at the same time exactly one fails
\* with the lock error, having changed nothing, while the other holds the lock;
\* and an apply that succeeds after keeping another apply out leaves the target
\* tree it leaves when it runs alone.
C7_MutualExclusion ==
    /\ \A p, q \in Procs :
        (p # q /\ cmd[p] = "apply" /\ cmd[q] = "apply"
               /\ pc[p] # "idle" /\ pc[q] # "idle")
            => \E l \in {p, q} :
                 LET w == CHOOSE x \in {p, q} : x # l
                 IN  /\ Done(l, "apply", "LockHeld") /\ l \notin lock
                     /\ target = pre_target[l] /\ backup = pre_backup[l]
                     /\ state_file = pre_state[l]
                     /\ result[w] # "LockHeld" /\ lock = {w}
    /\ \A p \in Procs :
        (Done(p, "apply", "Patched") /\ "apply" \in contended[p])
            => target = Overlay(pre_target[p])

\* An apply has succeeded and changed the tree after it kept another apply out.
C7_Witness ==
    \E p \in Procs :
        /\ Done(p, "apply", "Patched") /\ "apply" \in contended[p]
        /\ target # pre_target[p]

\* C8: an invocation that is anywhere between the loading of the state and
\* the last write of apply or revert holds the lock, and it alone.
C8_LockedWhileWorking ==
    \A p \in Procs : pc[p] \in Body => lock = {p}

\* An apply is about to overwrite a target file while a second invocation has
\* just been refused.
C8_Witness ==
    \E p, q \in Procs :
        /\ pc[p] = "copy" /\ lock = {p}
        /\ pc[q] = "done" /\ result[q] = "LockHeld"

\* C9: an apply or revert that starts while the lock is held ends in that
\* very step with the lock error, and changes no target file, no backup,
\* not the state and not the lock.
C9_LockHeldFailsFast ==
    [][\A p \in Procs :
         (pc[p] = "idle" /\ pc'[p] # "idle" /\ cmd'[p] \in {"apply", "revert"}
                         /\ lock # {})
            => /\ pc'[p] = "done" /\ result'[p] = "LockHeld"
               /\ UNCHANGED <<target, backup, state_file, lock>>]_vars

\* A revert has been refused while an apply is in its rollback.
C9_Witness ==
    \E p, q \in Procs :
        /\ Done(q, "revert", "LockHeld")
        /\ pc[p] = "rollback" /\ cmd[p] = "apply" /\ p \in blocked_by[q]

\* C10: an invocation that has returned, on whatever way out, no longer holds
\* the lock, and the lock is free whenever no apply or revert is running.
C10_LockReleased ==
    /\ \A p \in Procs : pc[p] \in {"idle", "done"} => p \notin lock
    /\ (\A p \in Procs : pc[p] \notin Body) => lock = {}

\* An apply has left through its except clause.
C10_Witness ==
    \E p \in Procs : Done(p, "apply", "PatchingFailed") /\ patched_files[p] # <<>>
\* C11: an apply that the operator aborts at a conflict of the pre-flight loop
\* returns with every target file, every backup and state.json as they were
\* before the call, whatever was answered to the earlier conflicts of the loop.
C11_AbortChangesNothing ==
    \A p \in Procs :
        Done(p, "apply", "Aborted")
            => /\ target = pre_target[p]
               /\ backup = pre_backup[p]
               /\ state_file = pre_state[p]

\* An apply was aborted at its second conflict after the first one had been
\* answered with re-backup.
C11_Witness ==
    \E p \in Procs :
        /\ Done(p, "apply", "Aborted")
        /\ Len(operations[p]) = 1
        /\ operations[p][1].force_rebackup
        /\ target[operations[p][1].relative_path] # backup[operations[p][1].relative_path]

\* C12: when an apply that answered a conflict with re-backup succeeds, the
\* backup of that path holds the content the target had just before the apply,
\* the entry's original_checksum is the checksum of that content and the target
\* holds the patch content; and the revert that follows (no restore raising)
\* leaves the target with that content.
C12_RebackupIsNewBaseline ==
    /\ \A p \in Procs : \A rp \in Paths :
        (/\ Done(p, "apply", "Patched")
         /\ \E i \in 1..Len(operations[p]) :
               /\ operations[p][i].relative_path = rp
               /\ operations[p][i].force_rebackup)
            => /\ backup[rp] = pre_target[p][rp]
               /\ Mapping(state_file)[rp].tracked
               /\ Mapping(state_file)[rp].original_checksum
                    = _compute_checksum(pre_target[p][rp])
               /\ target[rp] = patches[rp]
    /\ \A p \in Procs : \A rp \in Paths :
        (Done(p, "revert", "Reverted") /\ failed[p] = {} /\ rebacked[rp] # Absent)
            => target[rp] = rebacked[rp]

\* A revert has put back the content that the apply before it had backed up
\* afresh, over a different patch content.
C12_Witness ==
    \E p \in Procs : \E rp \in Paths :
        /\ Done(p, "revert", "Reverted") /\ failed[p] = {}
        /\ rebacked[rp] # Absent
        /\ pre_target[p][rp] # rebacked[rp]
        /\ target[rp] = rebacked[rp]

\* The target file of rp was in conflict with the state when the invocation
\* began: it existed, was tracked, and was not what the last apply had put there.
ConflictBefore(p, rp) ==
    /\ pre_target[p][rp] # Absent
    /\ Mapping(pre_state[p])[rp].tracked
    /\ _compute_checksum(pre_target[p][rp]) # Mapping(pre_state[p])[rp].patched_checksum

\* C13: when an apply that answered a conflict with force succeeds, the target
\* of that path holds the patch content, its entry has original_checksum None
\* and has_backup false, and the backup file of that path is as it was before
\* the call (not created, not changed).
C13_ForceTakesNoBackup ==
    \A p \in Procs : \A rp \in Paths :
        (/\ Done(p, "apply", "Patched")
         /\ ConflictBefore(p, rp)
         /\ \E i \in 1..Len(operations[p]) :
               /\ operations[p][i].relative_path = rp
               /\ ~operations[p][i].force_rebackup)
            => /\ target[rp] = patches[rp]
               /\ Mapping(state_file)[rp].tracked
               /\ Mapping(state_file)[rp].original_checksum = None
               /\ ~Mapping(state_file)[rp].has_backup
               /\ backup[rp] = pre_backup[p][rp]

\* An apply has succeeded after a conflict was answered with force, over a
\* file that had a backup from an earlier apply.
C13_Witness ==
    \E p \in Procs : \E rp \in Paths :
        /\ Done(p, "apply", "Patched")
        /\ ConflictBefore(p, rp)
        /\ \E i \in 1..Len(operations[p]) :
              /\ operations[p][i].relative_path = rp
              /\ ~operations[p][i].force_rebackup
        /\ pre_backup[p][rp] # Absent
        /\ target[rp] # pre_target[p][rp]

\* C14: a revert in which no restore raised has handled each entry of the
\* state by its record: the target of an entry with has_backup holds what the
\* backup held and the backup is gone; the target of an entry with
\* original_checksum None and no has_backup is absent.
C14_RevertByRecord ==
    \A p \in Procs : \A rp \in Paths :
        (Done(p, "revert", "Reverted") /\ failed[p] = {} /\ state[p][rp].tracked)
            => /\ state[p][rp].has_backup
                    => target[rp] = pre_backup[p][rp] /\ backup[rp] = Absent
               /\ (state[p][rp].original_checksum = None /\ ~state[p][rp].has_backup)
                    => target[rp] = Absent

\* No apply or revert is under way.
AtRest == lock = {} /\ \A p \in Procs : pc[p] \notin Body

\* C15: between the runs of apply (successful, aborted or rolled back) and
\* revert, every entry of state.json with has_backup has its backup file, and
\* every entry with original_checksum None has has_backup false.
C15_RecordedBackupsExist ==
    AtRest =>
        \A rp \in Paths :
            LET entry == Mapping(state_file)[rp]
            IN  entry.tracked =>
                  /\ entry.has_backup => backup[rp] # Absent
                  /\ entry.original_checksum = None => ~entry.has_backup

\* After a rolled-back apply the state holds an entry with a backup and an
\* entry of a created file.
C15_Witness ==
    \E p \in Procs : \E rp, rq \in Paths :
        /\ Done(p, "apply", "PatchingFailed")
        /\ Mapping(state_file)[rp].tracked /\ Mapping(state_file)[rp].has_backup
        /\ Mapping(state_file)[rq].tracked
        /\ Mapping(state_file)[rq].original_checksum = None

\* C16: between the runs of apply and revert, an entry of state.json has
\* has_backup exactly when its backup file exists.
C16_HasBackupIffBackupFile ==
    AtRest =>
        \A rp \in Paths :
            Mapping(state_file)[rp].tracked
                => (Mapping(state_file)[rp].has_backup <=> backup[rp] # Absent)

\* C17: status prints MISSING for an entry whose target file is absent, clean
\* for one whose target file has the recorded patched_checksum and MODIFIED
\* for any other, and its three counts add up to the number of entries.
C17_StatusClassifies ==
    \A p \in Procs :
        Done(p, "status", "Status") =>
            /\ \A rp \in Tracked(state[p]) :
                 LET missing == target[rp] = Absent
                     same == _compute_checksum(target[rp]) = state[p][rp].patched_checksum
                 IN  /\ report[p][rp] = "MISSING" <=> missing
                     /\ report[p][rp] = "clean" <=> (~missing /\ same)
                     /\ report[p][rp] = "MODIFIED" <=> (~missing /\ ~same)
            /\ Counts(report[p])["clean"] + Counts(report[p])["MODIFIED"]
                 + Counts(report[p])["MISSING"] = Cardinality(Tracked(state[p]))

\* status has printed one entry as MISSING and one as MODIFIED.
C17_Witness ==
    \E p \in Procs : \E rp, rq \in Paths :
        /\ Done(p, "status", "Status")
        /\ report[p][rp] = "MISSING" /\ report[p][rq] = "MODIFIED"

\* C18: no step of status changes state.json, a target file or a backup (nor
\* the patch source or the lock); and of two outputs of status with nothing
\* done by apply, revert or the environment from the first to the second, the
\* second is the first, entry by entry (hence count by count).
C18_StatusChangesNothing ==
    [][/\ \A p \in Procs :
            (\/ pc[p] = "idle" /\ pc'[p] # "idle" /\ cmd'[p] = "status"
             \/ pc[p] = "status" /\ pc'[p] # "status")
                => UNCHANGED <<files, lock>>
       /\ \A p \in Procs :
            (/\ pc'[p] = "done" /\ cmd'[p] = "status"
             /\ last_status'.prev # None /\ last_status'.cur # None)
                => last_status'.cur = last_status'.prev]_vars

\* status has printed the entries of a state a second time, nothing having
\* changed since the first.
C18_Witness ==
    \E p \in Procs :
        /\ Done(p, "status", "Status")
        /\ last_status.prev # None /\ last_status.cur # None
        /\ \E rp \in Paths : report[p][rp] = "MODIFIED"

\* C19: status never holds the lock and never ends with the lock error,
\* whoever holds the lock; and an apply or revert that starts while nothing but
\* status is running is not refused.
C19_StatusTakesNoLock ==
    [][\A p \in Procs :
         /\ cmd'[p] = "status" => (p \notin lock' /\ result'[p] # "LockHeld")
         /\ (/\ pc[p] = "idle" /\ pc'[p] # "idle" /\ cmd'[p] \in {"apply", "revert"}
             /\ \A q \in Procs \ {p} : pc[q] \in {"idle", "status"})
                => (pc'[p] = cmd'[p] /\ result'[p] # "LockHeld")]_vars

\* status has printed its output while the lock is held by an apply that
\* started, and got the lock, while this status was running.
C19_Witness ==
    /\ Done(1, "status", "Status")
    /\ cmd[2] = "apply" /\ pc[2] \in Body /\ lock = {2}
    /\ events = 3

\* C20: when an apply that found an empty state succeeds, for every patch
\* file: the target holds the patch content and the entry's patched_checksum is
\* its checksum; if the target file existed before the call, the backup holds
\* its content of then, original_checksum is the checksum of that content and
\* has_backup is true; if not, original_checksum is None and has_backup false.
\* And a status that runs after such an apply (it loaded the state that apply
\* saved), nothing else having touched the target, prints every entry as clean.
C20_FirstApply ==
    /\ \A p \in Procs : \A rp \in Paths :
        (/\ Done(p, "apply", "Patched")
         /\ Tracked(Mapping(pre_state[p])) = {}
         /\ patches[rp] # Absent)
            => LET entry == Mapping(state_file)[rp]
               IN  /\ target[rp] = patches[rp]
                   /\ entry.tracked
                   /\ entry.patched_checksum = _compute_checksum(patches[rp])
                   /\ IF pre_target[p][rp] # Absent
                      THEN /\ backup[rp] = pre_target[p][rp]
                           /\ entry.original_checksum
                                = _compute_checksum(pre_target[p][rp])
                           /\ entry.has_backup
                      ELSE /\ entry.original_checksum = None
                           /\ ~entry.has_backup
    /\ \A p \in Procs :
        (/\ pc[p] = "done" /\ cmd[p] = "status"
         /\ state[p] = Mapping(state_file)
         /\ chain.active /\ chain.n = 1 /\ lock = {})
            => /\ result[p] = "Status"
               /\ \A rp \in Paths :
                    report[p][rp] = IF state[p][rp].tracked THEN "clean" ELSE "none"

\* status has printed as clean a file the first apply overwrote and a file it
\* created.
C20_Witness ==
    \E p \in Procs : \E rp, rq \in Paths :
        /\ Done(p, "status", "Status")
        /\ state[p] = Mapping(state_file)
        /\ chain.active /\ chain.n = 1 /\ lock = {}
        /\ chain.base[rp] # Absent /\ backup[rp] = chain.base[rp]
        /\ target[rp] # chain.base[rp] /\ report[p][rp] = "clean"
        /\ chain.base[rq] = Absent /\ report[p][rq] = "clean"

\* The exit status main gives a run: 1 for a PatcherError and for an
\* interrupted run, 0 for a run that returned.
ExitCode(res) ==
    IF res \in {"LockHeld", "TargetMissing", "PatchesMissing", "PatchingFailed",
                "Killed"}
    THEN 1 ELSE 0

\* C21: an apply that got the lock and was not killed fails with an error when
\* the target root is missing, fails with an error when the patch source root
\* is missing, and returns successfully when the patch source exists but holds
\* no file; in each of the three cases every target file, every backup and the
\* state file are what they were when the run started.
C21_ApplyPreconditions ==
    \A p \in Procs :
        (pc[p] = "done" /\ cmd[p] = "apply"
            /\ result[p] \notin {"LockHeld", "Killed"})
        => /\ ~target_exists
              => result[p] = "TargetMissing" /\ ExitCode(result[p]) = 1
           /\ (target_exists /\ ~patches_exists)
              => result[p] = "PatchesMissing" /\ ExitCode(result[p]) = 1
           /\ (target_exists /\ patches_exists /\ _get_patch_files = {})
              => result[p] = "NoPatchFiles" /\ ExitCode(result[p]) = 0
           /\ result[p] \in {"TargetMissing", "PatchesMissing", "NoPatchFiles"}
              => /\ target = pre_target[p]
                 /\ backup = pre_backup[p]
                 /\ state_file = pre_state[p]

\* An apply returned as a no-op from an empty patch source while files are
\* tracked and backed up; the two error cases are reached from the initial
\* states whose roots are missing.
C21_Witness ==
    \E p \in Procs :
        /\ Done(p, "apply", "NoPatchFiles")
        /\ Tracked(Mapping(state_file)) # {}
        /\ backup # NoFiles

\* C22: a revert in which the restore of some entry failed still returns
\* normally, and every other entry of the state it loaded is as a revert
\* without the failure leaves it: the target holds the content of the backup
\* and the backup is gone, or, where there was no backup, the target is gone.
C22_RevertBestEffort ==
    \A p \in Procs :
        (pc[p] = "done" /\ cmd[p] = "revert" /\ failed[p] # {}
            /\ result[p] # "Killed")
        => /\ result[p] = "Reverted"
           /\ ExitCode(result[p]) = 0
           /\ \A rp \in Tracked(state[p]) \ failed[p] :
                IF pre_backup[p][rp] # Absent
                THEN target[rp] = pre_backup[p][rp] /\ backup[rp] = Absent
                ELSE target[rp] = Absent

\* A revert returned after one entry failed and another entry, whose target
\* held patched content, was restored.
C22_Witness ==
    \E p \in Procs :
        /\ Done(p, "revert", "Reverted")
        /\ failed[p] # {}
        /\ \E rp \in Tracked(state[p]) \ failed[p] :
               target[rp] # pre_target[p][rp]

\* C23: every step that removes a backup file, in any run and with kills and
\* raising file operations at any point, is taken while the target at that
\* path already holds the content of the backup, and leaves the target so.
C23_BackupDeletedAfterRestore ==
    [][\A rp \in Paths :
          (backup[rp] # Absent /\ backup'[rp] = Absent)
          => target[rp] = backup[rp] /\ target'[rp] = backup[rp]]_vars

\* A revert has just unlinked the backup of a path whose target it had to
\* rewrite, and is still running.
C23_Witness ==
    \E p \in Procs, rp \in Paths :
        /\ cmd[p] = "revert"
        /\ pc[p] \in Body
        /\ pre_backup[p][rp] # Absent
        /\ pre_target[p][rp] # pre_backup[p][rp]
        /\ backup[rp] = Absent
        /\ target[rp] = pre_backup[p][rp]

\* C24: after an apply was killed in its execution loop, having overwritten
\* target files and not saved the state, the next status reports every file
\* the killed run overwrote as MODIFIED, and the next apply raises a conflict
\* for every such file among its candidates: the operation it plans for it is
\* the one of a Re-backup or of a Force, never the plain one.
C24_KilledApplySurfaces ==
    /\ (partial # {} /\ last_status.cur # None)
       => /\ last_status.cur[1] = "Status"
          /\ \A rp \in partial : last_status.cur[2][rp] = "MODIFIED"
    /\ \A q \in Procs :
         (partial # {} /\ cmd[q] = "apply" /\ result[q] # "Killed")
         => \A i \in 1..Len(operations[q]) :
              operations[q][i].relative_path \in partial
              => \/ operations[q][i].force_rebackup
                 \/ ~operations[q][i].needs_backup

\* C25: a revert that got the lock, was not killed and found state.json
\* absent or holding no entry reports that no patches are applied, returns
\* successfully, and leaves every target file and every backup (and
\* state.json) as they were when it started.
C25_RevertNothingApplied ==
    \A p \in Procs :
        (pc[p] = "done" /\ cmd[p] = "revert"
            /\ result[p] \notin {"LockHeld", "Killed"}
            /\ Tracked(Mapping(pre_state[p])) = {})
        => /\ result[p] = "NoPatches"
           /\ ExitCode(result[p]) = 0
           /\ target = pre_target[p]
           /\ backup = pre_backup[p]
           /\ state_file = pre_state[p]

\* A revert returned as a no-op over a state.json that exists and is empty,
\* with backup files on disk.
C25_Witness ==
    \E p \in Procs :
        /\ Done(p, "revert", "NoPatches")
        /\ state_file.exists
        /\ backup # NoFiles

\* C26: in an apply, a candidate whose path the loaded state tracks, whose
\* target exists and whose target's checksum differs from the recorded
\* patched_checksum is planned only as one of the operator's answers allows
\* (Re-backup: backup taken afresh; Force: no backup although the target
\* exists; Abort: the run ends), and every other candidate (untracked path,
\* absent target, unchanged target) is planned with no question asked: a
\* backup exactly when the target exists, never a fresh one.  An apply ends
\* Aborted only when some candidate is in conflict.
C26_ConflictExactly ==
    \A p \in Procs :
        cmd[p] = "apply"
        => /\ \A i \in 1..Len(operations[p]) :
                LET op == operations[p][i]
                    rp == op.relative_path
                    exists == pre_target[p][rp] # Absent
                IN  IF ConflictBefore(p, rp)
                    THEN \/ op.needs_backup /\ op.force_rebackup
                         \/ ~op.needs_backup /\ ~op.force_rebackup
                    ELSE op.needs_backup = exists /\ ~op.force_rebackup
           /\ result[p] = "Aborted"
              => \E rp \in _get_patch_files \ Planned(p) : ConflictBefore(p, rp)

\* An apply has planned a candidate in conflict next to a tracked candidate
\* whose target is absent.
C26_Witness ==
    \E p \in Procs :
        /\ cmd[p] = "apply"
        /\ \E i, j \in 1..Len(operations[p]) :
             /\ ConflictBefore(p, operations[p][i].relative_path)
             /\ operations[p][i].force_rebackup
             /\ Mapping(pre_state[p])[operations[p][j].relative_path].tracked
             /\ pre_target[p][operations[p][j].relative_path] = Absent

\* C27: when a revert over a state with entries returns and none of its
\* restores failed, state.json is absent and no backup file is left for any
\* path the state tracked.
C27_RevertCleansUp ==
    \A p \in Procs :
        (Done(p, "revert", "Reverted") /\ failed[p] = {})
        => /\ ~state_file.exists
           /\ \A rp \in Tracked(state[p]) : backup[rp] = Absent

\* A revert with no failure returned over a state with a backed-up entry.
C27_Witness ==
    \E p \in Procs :
        /\ Done(p, "revert", "Reverted")
        /\ failed[p] = {}
        /\ \E rp \in Tracked(state[p]) : pre_backup[p][rp] # Absent

\* C28: when a revert returns after the restore of some entry failed, that
\* entry is still tracked in state.json; stated for the entries that have a
\* backup, which the state then still leads to.
C28_FailedEntryStaysTracked ==
    \A p \in Procs : \A rp \in Paths :
        (Done(p, "revert", "Reverted") /\ rp \in failed[p]
            /\ pre_backup[p][rp] # Absent)
        => state_file.exists /\ Mapping(state_file)[rp].tracked

\* C29: between runs of apply and revert that ran to their end (returned,
\* aborted or rolled back, whatever the answers to conflicts), every entry of
\* state.json with has_backup true has a backup file whose checksum is the
\* entry's original_checksum.
C29_BackupMatchesOriginal ==
    AtRest =>
        \A rp \in Tracked(Mapping(state_file)) :
            Mapping(state_file)[rp].has_backup
            => /\ backup[rp] # Absent
               /\ _compute_checksum(backup[rp])
                    = Mapping(state_file)[rp].original_checksum

\* C30: when a successful apply includes a path whose entry had has_backup
\* true when the run started, and the operator chose neither Force nor
\* Re-backup for it (no conflict was raised for the path), the entry the run
\* saves has has_backup true and the same original_checksum, and the backup
\* file holds what it held; so too when the target file had been deleted
\* before the run.
C30_BaselineKept ==
    \A p \in Procs : \A rp \in Planned(p) :
        (Done(p, "apply", "Patched")
            /\ Mapping(pre_state[p])[rp].tracked
            /\ Mapping(pre_state[p])[rp].has_backup
            /\ ~ConflictBefore(p, rp))
        => /\ Mapping(state_file)[rp].has_backup
           /\ Mapping(state_file)[rp].original_checksum
                = Mapping(pre_state[p])[rp].original_checksum
           /\ backup[rp] = pre_backup[p][rp]

\* C31: when an apply returns successfully, the entry of every path that is
\* not among its patch candidates is the entry state.json held when the run
\* started, and the tracked paths are the earlier ones plus the candidates;
\* and a revert that returns with no failure has restored every entry of the
\* state it loaded whose path is not in the patch source now, from its backup
\* or, where there is none, by removing the target.
C31_ApplyKeepsOtherEntries ==
    /\ \A p \in Procs :
         Done(p, "apply", "Patched")
         => /\ \A rp \in Paths \ Planned(p) :
                 Mapping(state_file)[rp] = Mapping(pre_state[p])[rp]
            /\ Planned(p) = _get_patch_files
            /\ Tracked(Mapping(state_file))
                 = Tracked(Mapping(pre_state[p])) \cup _get_patch_files
    /\ \A q \in Procs :
         (Done(q, "revert", "Reverted") /\ failed[q] = {})
         => \A rp \in Tracked(Mapping(pre_state[q])) \ _get_patch_files :
              /\ target[rp] = pre_backup[q][rp]
              /\ backup[rp] = Absent

\* An apply returned successfully while the state it started from tracked,
\* with a backup, a path that is not in the patch source.
C31_Witness ==
    \E p \in Procs : \E rp \in Paths \ _get_patch_files :
        /\ Done(p, "apply", "Patched")
        /\ Mapping(pre_state[p])[rp].tracked
        /\ Mapping(pre_state[p])[rp].has_backup
        /\ Mapping(state_file)[rp].tracked

=============================================================================
